---- MODULE Spec2Model ----
(***************************************************************************)
(* A model of playfair_cipher_rs (src/src/lib.rs): the Playfair cipher     *)
(* over the 25-letter alphabet A-Z without J.                              *)
(*                                                                         *)
(* A character is a one-character string, a Rust String is a sequence of   *)
(* characters.  A call that panics has no return value: its outcome is a   *)
(* record whose status names the panic and whose text is empty.            *)
(***************************************************************************)
EXTENDS Integers, Sequences, FiniteSets, TLC

VARIABLES key, table, op, input, output, pairs, recovered

vars == <<key, table, op, input, output, pairs, recovered>>

-----------------------------------------------------------------------------
(* Bounds of the model *)

\* longest key drawn from KeyChars
MaxKeyLen == 1

\* longest text drawn from TextChars
MaxTextLen == 3

\* longest plaintext whose variants (spaces, case, J for I) are encrypted too
MaxEditLen == 2

\* characters of the bounded keys: a lower-case letter, J, a space, a digit
KeyChars == {"z", "J", " ", "1"}

\* characters of the bounded texts: the filler, the last letter of the
\* alphabet, a lower-case letter, J, a space, a digit
TextChars == {"X", "Z", "i", "J", " ", "1"}

SeqsUpTo(S, n) == UNION {[1..k -> S] : k \in 0..n}

-----------------------------------------------------------------------------
(* Constants of the program *)

ALPHABET == <<"A", "B", "C", "D", "E", "F", "G", "H", "I", "K", "L", "M", "N",
              "O", "P", "Q", "R", "S", "T", "U", "V", "W", "X", "Y", "Z">>

\* the filler of the unfinished duplicate src/src/playfair_cipher.rs
FILLER_Z == "Z"

FILLER == "X"

TABLE_SIZE == 5

TEST_KEY == <<"p", "l", "a", "y", "f", "a", "i", "r", " ",
              "e", "x", "a", "m", "p", "l", "e">>

TEST_PLAIN == <<"H", "i", "d", "e", " ", "t", "h", "e", " ", "g", "o", "l", "d",
                " ", "i", "n", " ", "t", "h", "e", " ", "t", "r", "e", "e", " ",
                "s", "t", "u", "m", "p">>

TEST_CIPHER == <<"B", "M", "O", "D", "Z", "B", "X", "D", "N", "A", "B", "E", "K",
                 "U", "D", "M", "U", "I", "X", "M", "M", "O", "U", "V", "I", "F">>

-----------------------------------------------------------------------------
(* str::to_uppercase, str::replace on the ASCII characters *)

LOWER == <<"a", "b", "c", "d", "e", "f", "g", "h", "i", "j", "k", "l", "m",
           "n", "o", "p", "q", "r", "s", "t", "u", "v", "w", "x", "y", "z">>

UPPER == <<"A", "B", "C", "D", "E", "F", "G", "H", "I", "J", "K", "L", "M",
           "N", "O", "P", "Q", "R", "S", "T", "U", "V", "W", "X", "Y", "Z">>

upper_char(c) ==
    IF \E i \in DOMAIN LOWER : LOWER[i] = c
    THEN UPPER[CHOOSE i \in DOMAIN LOWER : LOWER[i] = c]
    ELSE c

to_uppercase(s) == [i \in 1..Len(s) |-> upper_char(s[i])]

RECURSIVE replace(_, _, _)
\* every occurrence of the character from becomes the string to
replace(s, from, to) ==
    IF s = <<>> THEN <<>>
    ELSE (IF Head(s) = from THEN to ELSE <<Head(s)>>) \o replace(Tail(s), from, to)

\* a plausible slip: the J of the text is not merged into I
normalize_keep_j(s) == replace(to_uppercase(s), " ", <<>>)

\* lib.rs:83 and lib.rs:176: to_uppercase().replace(' ', "").replace('J', "I")
normalize(s) == replace(replace(to_uppercase(s), " ", <<>>), "J", <<"I">>)

-----------------------------------------------------------------------------
(* Playfair::create_table *)

contains(temp, c) == \E i \in DOMAIN temp : temp[i] = c

RECURSIVE fill(_, _)
\* for c in s.chars() { if !temp.contains(&c) { temp.push(c); } }
fill(temp, s) ==
    IF s = <<>> THEN temp
    ELSE fill(IF contains(temp, Head(s)) THEN temp ELSE Append(temp, Head(s)), Tail(s))

create_table(k) ==
    LET temp == fill(fill(<<>>, normalize(k)), ALPHABET)
    IN  [i \in 0..(TABLE_SIZE - 1) |->
            [j \in 0..(TABLE_SIZE - 1) |-> temp[i * TABLE_SIZE + j + 1]]]

-----------------------------------------------------------------------------
(* Outcomes of a call *)

Ok(t) == [status |-> "ok", text |-> t]

\* unreachable!("{} is not in the table", c) in get_index
PanicUnreachable == [status |-> "unreachable", text |-> <<>>]

\* Option::unwrap() on None in decrypt
PanicUnwrapNone == [status |-> "unwrap_none", text |-> <<>>]

-----------------------------------------------------------------------------
(* Playfair::get_index, encrypt_pair, decrypt_pair *)

get_index(tbl, c) ==
    LET hits == {k \in 0..(TABLE_SIZE * TABLE_SIZE - 1) :
                    tbl[k \div TABLE_SIZE][k % TABLE_SIZE] = c}
    IN  IF hits = {} THEN [found |-> FALSE, row |-> 0, col |-> 0]
        ELSE LET k == CHOOSE h \in hits : \A m \in hits : h <= m
             IN  [found |-> TRUE, row |-> k \div TABLE_SIZE, col |-> k % TABLE_SIZE]

\* a plausible slip: the rectangle rule with the two letters swapped
encrypt_pair_swapped(tbl, c1, c2) ==
    LET p1 == get_index(tbl, c1)
        p2 == get_index(tbl, c2)
    IN  IF ~p1.found \/ ~p2.found THEN PanicUnreachable
        ELSE IF p1.row = p2.row
        THEN Ok(<<tbl[p1.row][(p1.col + 1) % TABLE_SIZE],
                  tbl[p2.row][(p2.col + 1) % TABLE_SIZE]>>)
        ELSE IF p1.col = p2.col
        THEN Ok(<<tbl[(p1.row + 1) % TABLE_SIZE][p1.col],
                  tbl[(p2.row + 1) % TABLE_SIZE][p2.col]>>)
        ELSE Ok(<<tbl[p2.row][p1.col], tbl[p1.row][p2.col]>>)

encrypt_pair(tbl, c1, c2) ==
    LET p1 == get_index(tbl, c1)
        p2 == get_index(tbl, c2)
    IN  IF ~p1.found \/ ~p2.found THEN PanicUnreachable
        ELSE IF p1.row = p2.row
        THEN Ok(<<tbl[p1.row][(p1.col + 1) % TABLE_SIZE],
                  tbl[p2.row][(p2.col + 1) % TABLE_SIZE]>>)
        ELSE IF p1.col = p2.col
        THEN Ok(<<tbl[(p1.row + 1) % TABLE_SIZE][p1.col],
                  tbl[(p2.row + 1) % TABLE_SIZE][p2.col]>>)
        ELSE Ok(<<tbl[p1.row][p2.col], tbl[p2.row][p1.col]>>)

decrypt_pair(tbl, c1, c2) ==
    LET p1 == get_index(tbl, c1)
        p2 == get_index(tbl, c2)
    IN  IF ~p1.found \/ ~p2.found THEN PanicUnreachable
        ELSE IF p1.row = p2.row
        THEN Ok(<<tbl[p1.row][(p1.col + TABLE_SIZE - 1) % TABLE_SIZE],
                  tbl[p2.row][(p2.col + TABLE_SIZE - 1) % TABLE_SIZE]>>)
        ELSE IF p1.col = p2.col
        THEN Ok(<<tbl[(p1.row + TABLE_SIZE - 1) % TABLE_SIZE][p1.col],
                  tbl[(p2.row + TABLE_SIZE - 1) % TABLE_SIZE][p2.col]>>)
        ELSE Ok(<<tbl[p1.row][p2.col], tbl[p2.row][p1.col]>>)

-----------------------------------------------------------------------------
(* Playfair::encrypt *)

RECURSIVE encrypt_loop_no_pad(_, _, _, _, _)
\* a plausible slip: a single letter left at the end is dropped, not padded
encrypt_loop_no_pad(tbl, s, i, acc, ps) ==
    IF i >= Len(s) THEN [status |-> "ok", text |-> acc, pairs |-> ps]
    ELSE LET c1 == s[i]
             c2 == s[i + 1]
             second == IF c1 = c2 THEN FILLER ELSE c2
             r == encrypt_pair(tbl, c1, second)
             ps2 == Append(ps, <<c1, second>>)
         IN  IF r.status # "ok"
             THEN [status |-> r.status, text |-> <<>>, pairs |-> ps2]
             ELSE encrypt_loop_no_pad(tbl, s, IF c1 = c2 THEN i + 1 ELSE i + 2,
                                      acc \o r.text, ps2)

RECURSIVE encrypt_loop(_, _, _, _, _)
\* the while-let loop over the peekable iterator, i the next unread position;
\* ps records every digraph handed to encrypt_pair
encrypt_loop(tbl, s, i, acc, ps) ==
    IF i > Len(s) THEN [status |-> "ok", text |-> acc, pairs |-> ps]
    ELSE LET c1 == s[i]
             c2 == IF i + 1 <= Len(s) THEN s[i + 1] ELSE FILLER
             second == IF c1 = c2 THEN FILLER ELSE c2
             r == encrypt_pair(tbl, c1, second)
             ps2 == Append(ps, <<c1, second>>)
         IN  IF r.status # "ok"
             THEN [status |-> r.status, text |-> <<>>, pairs |-> ps2]
             ELSE encrypt_loop(tbl, s, IF c1 = c2 THEN i + 1 ELSE i + 2,
                               acc \o r.text, ps2)

encrypt_run(tbl, plain_text) == encrypt_loop(tbl, normalize(plain_text), 1, <<>>, <<>>)

encrypt(tbl, plain_text) ==
    LET r == encrypt_run(tbl, plain_text) IN [status |-> r.status, text |-> r.text]

-----------------------------------------------------------------------------
(* Playfair::decrypt *)

RECURSIVE decrypt_loop_padded(_, _, _, _)
\* a plausible slip: the unpaired last letter is padded as in encrypt
decrypt_loop_padded(tbl, s, i, acc) ==
    IF i > Len(s) THEN Ok(acc)
    ELSE LET r == decrypt_pair(tbl, s[i], IF i + 1 > Len(s) THEN FILLER ELSE s[i + 1])
         IN  IF r.status # "ok" THEN r
             ELSE decrypt_loop_padded(tbl, s, i + 2, acc \o r.text)

RECURSIVE decrypt_loop(_, _, _, _)
decrypt_loop(tbl, s, i, acc) ==
    IF i > Len(s) THEN Ok(acc)
    ELSE IF i + 1 > Len(s) THEN PanicUnwrapNone
    ELSE LET r == decrypt_pair(tbl, s[i], s[i + 1])
         IN  IF r.status # "ok" THEN r
             ELSE decrypt_loop(tbl, s, i + 2, acc \o r.text)

decrypt(tbl, cipher_text) == decrypt_loop(tbl, cipher_text, 1, <<>>)

-----------------------------------------------------------------------------
(* The instance and the calls made on it *)

Keys == SeqsUpTo(KeyChars, MaxKeyLen) \cup {TEST_KEY}

Texts == SeqsUpTo(TextChars, MaxTextLen) \cup {TEST_PLAIN, TEST_CIPHER}

PairChars == {ALPHABET[i] : i \in DOMAIN ALPHABET} \cup {"J", "1"}

None == [status |-> "none", text |-> <<>>]

\* Playfair::new(key)
Init ==
    /\ key \in Keys
    /\ table = create_table(key)
    /\ op = "ready"
    /\ input = <<>>
    /\ output = None
    /\ pairs = <<>>
    /\ recovered = None

\* the instance is shared read-only; a call starts when no other is observed
Ready == op = "ready"

EncryptCall(kind, p) ==
    LET r == encrypt_run(table, p)
    IN  /\ op' = kind
        /\ input' = p
        /\ output' = [status |-> r.status, text |-> r.text]
        /\ pairs' = r.pairs
        /\ recovered' = None
        /\ UNCHANGED <<key, table>>

\* self.encrypt(p)
Encrypt(p) == Ready /\ EncryptCall("encrypt", p)

Edited == op \in {"encrypt", "variant"} /\ Len(input) <= MaxEditLen

\* self.encrypt of the last plaintext with a space inserted before position i
InsertSpace(i) ==
    /\ Edited
    /\ Len(input) < MaxEditLen
    /\ EncryptCall("variant", SubSeq(input, 1, i - 1) \o <<" ">> \o SubSeq(input, i, Len(input)))

\* self.encrypt of the last plaintext with the space at position i removed
RemoveSpace(i) ==
    /\ Edited
    /\ input[i] = " "
    /\ EncryptCall("variant", SubSeq(input, 1, i - 1) \o SubSeq(input, i + 1, Len(input)))

swap_case(c) ==
    IF \E i \in DOMAIN LOWER : LOWER[i] = c
    THEN UPPER[CHOOSE i \in DOMAIN LOWER : LOWER[i] = c]
    ELSE IF \E i \in DOMAIN UPPER : UPPER[i] = c
    THEN LOWER[CHOOSE i \in DOMAIN UPPER : UPPER[i] = c]
    ELSE c

\* self.encrypt of the last plaintext with the case of the letter at i changed
ChangeCase(i) ==
    /\ Edited
    /\ swap_case(input[i]) # input[i]
    /\ EncryptCall("variant", [input EXCEPT ![i] = swap_case(input[i])])

\* self.encrypt of the last plaintext with the J at position i replaced by I
ReplaceJ(i) ==
    /\ Edited
    /\ input[i] = "J"
    /\ EncryptCall("variant", [input EXCEPT ![i] = "I"])

\* self.decrypt(c)
Decrypt(c) ==
    /\ Ready
    /\ op' = "decrypt"
    /\ input' = c
    /\ output' = decrypt(table, c)
    /\ pairs' = <<>>
    /\ recovered' = None
    /\ UNCHANGED <<key, table>>

\* self.decrypt(self.encrypt(p)): a panic of encrypt leaves nothing to decrypt
RoundTrip(p) ==
    LET r == encrypt_run(table, p)
    IN  /\ Ready
        /\ op' = "roundtrip"
        /\ input' = p
        /\ output' = [status |-> r.status, text |-> r.text]
        /\ pairs' = r.pairs
        /\ recovered' = IF r.status = "ok" THEN decrypt(table, r.text)
                        ELSE [status |-> r.status, text |-> <<>>]
        /\ UNCHANGED <<key, table>>

\* self.encrypt_pair(c1, c2)
EncryptPair(c1, c2) ==
    /\ Ready
    /\ op' = "encrypt_pair"
    /\ input' = <<c1, c2>>
    /\ output' = encrypt_pair(table, c1, c2)
    /\ pairs' = <<>>
    /\ recovered' = None
    /\ UNCHANGED <<key, table>>

\* self.decrypt_pair(c1, c2)
DecryptPair(c1, c2) ==
    /\ Ready
    /\ op' = "decrypt_pair"
    /\ input' = <<c1, c2>>
    /\ output' = decrypt_pair(table, c1, c2)
    /\ pairs' = <<>>
    /\ recovered' = None
    /\ UNCHANGED <<key, table>>

\* the caller drops the returned String; the instance is unchanged
Return ==
    /\ ~Ready
    /\ op' = "ready"
    /\ input' = <<>>
    /\ output' = None
    /\ pairs' = <<>>
    /\ recovered' = None
    /\ UNCHANGED <<key, table>>

Next ==
    \/ Ready /\ \E p \in Texts : Encrypt(p)
    \/ Edited /\ \E i \in 1..(Len(input) + 1) : InsertSpace(i)
    \/ Edited /\ \E i \in 1..Len(input) : RemoveSpace(i)
    \/ Edited /\ \E i \in 1..Len(input) : ChangeCase(i)
    \/ Edited /\ \E i \in 1..Len(input) : ReplaceJ(i)
    \/ Ready /\ \E c \in Texts : Decrypt(c)
    \/ Ready /\ \E p \in Texts : RoundTrip(p)
    \/ Ready /\ \E c1 \in PairChars, c2 \in PairChars : EncryptPair(c1, c2)
    \/ Ready /\ \E c1 \in PairChars, c2 \in PairChars : DecryptPair(c1, c2)
    \/ Return

Spec == Init /\ [][Next]_vars

-----------------------------------------------------------------------------
(* Vocabulary of the properties *)

Range(s) == {s[i] : i \in DOMAIN s}

AlphabetSet == Range(ALPHABET)

Latin == Range(LOWER) \cup Range(UPPER)

\* a text made of Latin letters and spaces
LettersAndSpaces(s) == Range(s) \subseteq Latin \cup {" "}

\* output is the outcome of self.encrypt(input), pairs its digraphs
Encrypted == op \in {"encrypt", "variant", "roundtrip"}

RECURSIVE Flatten(_)
Flatten(ps) == IF ps = <<>> THEN <<>> ELSE Head(ps) \o Flatten(Tail(ps))

Cells == 0..(TABLE_SIZE - 1)

TableLetters == {table[i][j] : i \in Cells, j \in Cells}

\* the table read row-major
FlatTable == [k \in 1..(TABLE_SIZE * TABLE_SIZE) |->
                table[(k - 1) \div TABLE_SIZE][(k - 1) % TABLE_SIZE]]

\* the characters of s in order of first appearance
FirstAppearances(s) ==
    LET keep == {i \in DOMAIN s : \A j \in 1..(i - 1) : s[j] # s[i]}
        nth(n) == CHOOSE i \in keep : Cardinality({j \in keep : j < i}) = n - 1
    IN  [n \in 1..Cardinality(keep) |-> s[nth(n)]]

NonSpaces(s) == Cardinality({i \in DOMAIN s : s[i] # " "})

-----------------------------------------------------------------------------
(* C1 *)

\* C1: decrypt(encrypt(p)) returns, for every key and every plaintext p of
\* Latin letters and spaces, the concatenation of the digraphs encrypt split
\* the normalized p into.
C1_RoundTrip ==
    (op = "roundtrip" /\ LettersAndSpaces(input))
        => recovered = Ok(Flatten(pairs))

\* the round trip on the instances whose key is made of letters and spaces
RoundTripOnLetterKeys ==
    (op = "roundtrip" /\ LettersAndSpaces(input) /\ LettersAndSpaces(key))
        => recovered = Ok(Flatten(pairs))

-----------------------------------------------------------------------------
(* C2 *)

\* C2: the table of every instance holds exactly the 25 letters of A-Z
\* without J, each once.
C2_TableComplete ==
    /\ TableLetters = AlphabetSet
    /\ \A k, m \in DOMAIN FlatTable : FlatTable[k] = FlatTable[m] => k = m

\* the table of the instances whose key is made of letters and spaces
TableCompleteOnLetterKeys == LettersAndSpaces(key) => C2_TableComplete

-----------------------------------------------------------------------------
(* C3 *)

TEST_DIGRAPHS == << <<"H", "I">>, <<"D", "E">>, <<"T", "H">>, <<"E", "G">>,
                    <<"O", "L">>, <<"D", "I">>, <<"N", "T">>, <<"H", "E">>,
                    <<"T", "R">>, <<"E", "X">>, <<"E", "S">>, <<"T", "U">>,
                    <<"M", "P">> >>

\* C3: with key "playfair example", encrypt("Hide the gold in the tree stump")
\* returns "BMODZBXDNABEKUDMUIXMMOUVIF" from the digraphs HI DE TH EG OL DI NT
\* HE TR EX ES TU MP.
C3_KnownVector ==
    (key = TEST_KEY /\ op = "encrypt" /\ input = TEST_PLAIN)
        => (output = Ok(TEST_CIPHER) /\ pairs = TEST_DIGRAPHS)

C3_Witness ==
    key = TEST_KEY /\ op = "encrypt" /\ input = TEST_PLAIN /\ output.status = "ok"

-----------------------------------------------------------------------------
(* C4 *)

\* C4 as stated: the ciphertext encrypt returns for a plaintext of letters and
\* spaces has an even length, at least the length of the input text.
C4_LengthAtLeastInput ==
    (Encrypted /\ LettersAndSpaces(input) /\ output.status = "ok")
        => (Len(output.text) % 2 = 0 /\ Len(output.text) >= Len(input))

\* C4 amended: the ciphertext encrypt returns for a plaintext of letters and
\* spaces has an even length, at least the number of characters of the input
\* text that are not spaces.
C4_LengthAtLeastStripped ==
    (Encrypted /\ LettersAndSpaces(input) /\ output.status = "ok")
        => (Len(output.text) % 2 = 0 /\ Len(output.text) >= NonSpaces(input))

\* a returned ciphertext for a plaintext with a space, longer than the
\* plaintext's letters because a filler was added
C4_Witness ==
    /\ op = "encrypt" /\ LettersAndSpaces(input) /\ output.status = "ok"
    /\ " " \in Range(input)
    /\ Len(output.text) > NonSpaces(input)

-----------------------------------------------------------------------------
(* C5 *)

\* C5: encrypting a plaintext again after inserting or removing a space,
\* changing the case of a letter or replacing a J by I has the outcome of
\* encrypting the plaintext; by repetition, so does the canonical form.
C5_IdempotentNormalization ==
    [][op' = "variant" => output' = output]_vars

C5_Witness ==
    /\ op = "variant" /\ output.status = "ok" /\ Len(output.text) > 0
    /\ input # normalize(input)

-----------------------------------------------------------------------------
(* C6 *)

\* C6: for every key the table read row-major is the normalized key's
\* letters in order of first appearance followed by the letters of the
\* alphabet that are not in the key, in A-to-Z order.
C6_KeyPrefix ==
    LET k == normalize(key)
    IN  FlatTable = FirstAppearances(k)
                      \o SelectSeq(ALPHABET, LAMBDA c : c \notin Range(k))

\* the same on the instances whose key is made of letters and spaces
KeyPrefixOnLetterKeys == LettersAndSpaces(key) => C6_KeyPrefix

-----------------------------------------------------------------------------
(* C7 *)

\* C7: a call of encrypt whose normalized text, or of decrypt whose text,
\* holds a character outside A-Z without J panics and returns nothing.
C7_InvalidLetterFails ==
    /\ (Encrypted /\ ~(Range(normalize(input)) \subseteq AlphabetSet))
           => output.status # "ok"
    /\ (op = "decrypt" /\ ~(Range(input) \subseteq AlphabetSet))
           => output.status # "ok"

\* the same on the instances whose key is made of letters and spaces
InvalidLetterFailsOnLetterKeys == LettersAndSpaces(key) => C7_InvalidLetterFails

-----------------------------------------------------------------------------
(* C8 *)

-----------------------------------------------------------------------------
(* C9 *)

PairRule(r1, c1, r2, c2, d) ==
    IF r1 = r2
    THEN <<table[r1][(c1 + d) % TABLE_SIZE], table[r2][(c2 + d) % TABLE_SIZE]>>
    ELSE IF c1 = c2
    THEN <<table[(r1 + d) % TABLE_SIZE][c1], table[(r2 + d) % TABLE_SIZE][c2]>>
    ELSE <<table[r1][c2], table[r2][c1]>>

\* C9: for two table letters at (r1,c1) and (r2,c2), encrypt_pair returns the
\* right neighbours in a common row, the lower neighbours in a common column
\* and the rectangle's other corners otherwise; decrypt_pair the same with -1
\* for +1, modulo 5; the rectangle rule applied twice returns the pair.
C9_PairRule ==
    /\ op = "encrypt_pair" =>
         \A r1 \in Cells, c1 \in Cells, r2 \in Cells, c2 \in Cells :
            (table[r1][c1] = input[1] /\ table[r2][c2] = input[2]) =>
               /\ output = Ok(PairRule(r1, c1, r2, c2, 1))
               /\ (r1 # r2 /\ c1 # c2) =>
                     /\ encrypt_pair(table, output.text[1], output.text[2]) = Ok(input)
                     /\ decrypt_pair(table, output.text[1], output.text[2]) = Ok(input)
    /\ op = "decrypt_pair" =>
         \A r1 \in Cells, c1 \in Cells, r2 \in Cells, c2 \in Cells :
            (table[r1][c1] = input[1] /\ table[r2][c2] = input[2]) =>
               output = Ok(PairRule(r1, c1, r2, c2, -1))

\* a pair in one row whose first letter is in the last column: it wraps
C9_Witness ==
    /\ op = "encrypt_pair" /\ output.status = "ok"
    /\ \E r \in Cells, c \in Cells :
          /\ table[r][TABLE_SIZE - 1] = input[1] /\ table[r][c] = input[2]
          /\ output.text[1] = table[r][0]

-----------------------------------------------------------------------------
(* C10 *)

\* C10: every digraph encrypt hands to encrypt_pair, for a plaintext of
\* letters and spaces, consists of two different letters.
C10_DigraphsDistinct ==
    (Encrypted /\ LettersAndSpaces(input))
        => \A i \in DOMAIN pairs : pairs[i][1] # pairs[i][2]

\* the same for the plaintexts without the filler letter
DigraphsDistinctWithoutFiller ==
    (Encrypted /\ LettersAndSpaces(input) /\ FILLER \notin Range(normalize(input)))
        => \A i \in DOMAIN pairs : pairs[i][1] # pairs[i][2]

====
